---- MODULE Spec2Model ----
(***************************************************************************)
(* Transaction categorization of the Cash App analyzer                     *)
(* (src/cashapp-analyzer-gui/src/analyzer/cashapp_analyzer.py).            *)
(*                                                                         *)
(* A DataFrame is a record [cols, rows]: cols is the set of column names   *)
(* and rows the sequence of its rows.  Amounts are integer cents           *)
(* (-318.28 is -31828).  A text is a sequence of one-character strings;    *)
(* the missing value of a text column (pandas NaN) is the text NaN.        *)
(***************************************************************************)
EXTENDS Integers, Sequences, FiniteSets, TLC

\* Largest number of further rows that follow the first row of a CSV file.
MaxMoreRows == 1

\* Largest number of categorize_transactions calls on one analyzer.
MaxRuns == 2

---------------------------------------------------------------------------
(* Texts *)

\* The missing value of a text cell; no text made of characters equals it.
NaN == <<"NaN">>

UpperMap ==
  [a |-> "A", b |-> "B", c |-> "C", d |-> "D", e |-> "E", f |-> "F",
   g |-> "G", h |-> "H", i |-> "I", j |-> "J", k |-> "K", l |-> "L",
   m |-> "M", n |-> "N", o |-> "O", p |-> "P", q |-> "Q", r |-> "R",
   s |-> "S", t |-> "T", u |-> "U", v |-> "V", w |-> "W", x |-> "X",
   y |-> "Y", z |-> "Z"]

UpperChar(c) == IF c \in DOMAIN UpperMap THEN UpperMap[c] ELSE c

\* str.upper()
upper(s) == [i \in 1..Len(s) |-> UpperChar(s[i])]

\* str(value): a missing cell prints as 'nan'.
str(t) == IF t = NaN THEN <<"n","a","n">> ELSE t

\* keyword in merchant: keyword occurs in merchant as a contiguous substring.
In(keyword, merchant) ==
  \E i \in 0..(Len(merchant) - Len(keyword)) :
     \A j \in 1..Len(keyword) : merchant[i + j] = keyword[j]

\* Series.str.contains(pat, case=False, na=False) on one cell: a missing cell
\* gives False, otherwise pat is searched ignoring case (the patterns used
\* hold no regular-expression metacharacter).
str_contains(t, pat) ==
  /\ t # NaN
  /\ \E i \in 0..(Len(t) - Len(pat)) :
        \A j \in 1..Len(pat) : UpperChar(t[i + j]) = UpperChar(pat[j])

\* any(keyword in merchant for keyword in keywords)
AnyIn(keywords, merchant) ==
  \E n \in 1..Len(keywords) : In(keywords[n], merchant)

---------------------------------------------------------------------------
(* Merchant keyword tables of _categorize_cash_card_expense *)

\* food_keywords (line 255): CHIPOTLE, MCDONALD, STARBUCKS, WAFFLE HOUSE, WHATABURGER, ZAXBY, MARCOS PIZZA, JETS PIZZA, TROPICAL SMOOTHIE, DELI, JAX BEACH BRUNCH, RESTAURANT, QUE ONDA, HABERDISH, SAKE HOUSE, CREPE, WINN-DIXIE, JUICE TAP, AKELS DELI, ANDREW`S DELI, PENMAN HOSPITALITY, GEMMA FISH OYSTER, WORKMAN'S FRIEND, FRENCHY'S SIP, SPO*LACOCINAMEXICANARESTA
food_keywords ==
  << <<"C","H","I","P","O","T","L","E">>,
     <<"M","C","D","O","N","A","L","D">>,
     <<"S","T","A","R","B","U","C","K","S">>,
     <<"W","A","F","F","L","E"," ","H","O","U","S","E">>,
     <<"W","H","A","T","A","B","U","R","G","E","R">>,
     <<"Z","A","X","B","Y">>,
     <<"M","A","R","C","O","S"," ","P","I","Z","Z","A">>,
     <<"J","E","T","S"," ","P","I","Z","Z","A">>,
     <<"T","R","O","P","I","C","A","L"," ","S","M","O","O","T","H","I","E">>,
     <<"D","E","L","I">>,
     <<"J","A","X"," ","B","E","A","C","H"," ","B","R","U","N","C","H">>,
     <<"R","E","S","T","A","U","R","A","N","T">>,
     <<"Q","U","E"," ","O","N","D","A">>,
     <<"H","A","B","E","R","D","I","S","H">>,
     <<"S","A","K","E"," ","H","O","U","S","E">>,
     <<"C","R","E","P","E">>,
     <<"W","I","N","N","-","D","I","X","I","E">>,
     <<"J","U","I","C","E"," ","T","A","P">>,
     <<"A","K","E","L","S"," ","D","E","L","I">>,
     <<"A","N","D","R","E","W","`","S"," ","D","E","L","I">>,
     <<"P","E","N","M","A","N"," ","H","O","S","P","I","T","A","L","I","T","Y">>,
     <<"G","E","M","M","A"," ","F","I","S","H"," ","O","Y","S","T","E","R">>,
     <<"W","O","R","K","M","A","N","'","S"," ","F","R","I","E","N","D">>,
     <<"F","R","E","N","C","H","Y","'","S"," ","S","I","P">>,
     <<"S","P","O","*","L","A","C","O","C","I","N","A","M","E","X","I","C","A","N","A","R","E","S","T","A">> >>

\* entertainment_keywords (line 268): NETFLIX, SPOTIFY, YOUTUBE, STEAM, ROKU, MAX.COM, DECCA LIVE, HOPTINGER, SURFER THE BAR, BRIX TAPHOUSE, STEAMGAMES.COM
entertainment_keywords ==
  << <<"N","E","T","F","L","I","X">>,
     <<"S","P","O","T","I","F","Y">>,
     <<"Y","O","U","T","U","B","E">>,
     <<"S","T","E","A","M">>,
     <<"R","O","K","U">>,
     <<"M","A","X",".","C","O","M">>,
     <<"D","E","C","C","A"," ","L","I","V","E">>,
     <<"H","O","P","T","I","N","G","E","R">>,
     <<"S","U","R","F","E","R"," ","T","H","E"," ","B","A","R">>,
     <<"B","R","I","X"," ","T","A","P","H","O","U","S","E">>,
     <<"S","T","E","A","M","G","A","M","E","S",".","C","O","M">> >>

\* travel_keywords (line 277): LOVE'S, 7-ELEVEN, AMERICAN AIRLINES, XPRESS SHOP
travel_keywords ==
  << <<"L","O","V","E","'","S">>,
     <<"7","-","E","L","E","V","E","N">>,
     <<"A","M","E","R","I","C","A","N"," ","A","I","R","L","I","N","E","S">>,
     <<"X","P","R","E","S","S"," ","S","H","O","P">> >>

\* health_keywords (line 285): DENTAL, MEDICAL, CRUNCH FITNESS, WEST BEACHES DENTAL
health_keywords ==
  << <<"D","E","N","T","A","L">>,
     <<"M","E","D","I","C","A","L">>,
     <<"C","R","U","N","C","H"," ","F","I","T","N","E","S","S">>,
     <<"W","E","S","T"," ","B","E","A","C","H","E","S"," ","D","E","N","T","A","L">> >>

\* golf_keywords (line 293): GOLF, MUNICIPAL, WHITEWATER, HULAWEENTIX, CAROLINA LAKES GOL, ST AUGUSTINE SHORES GC, JCKSNVL BCH MUNICPL GL, JACKSONVILLE BEACH GOLF, BLUE SKY GOLF CLUB, MARSH LANDING COUNTRY CLU
golf_keywords ==
  << <<"G","O","L","F">>,
     <<"M","U","N","I","C","I","P","A","L">>,
     <<"W","H","I","T","E","W","A","T","E","R">>,
     <<"H","U","L","A","W","E","E","N","T","I","X">>,
     <<"C","A","R","O","L","I","N","A"," ","L","A","K","E","S"," ","G","O","L">>,
     <<"S","T"," ","A","U","G","U","S","T","I","N","E"," ","S","H","O","R","E","S"," ","G","C">>,
     <<"J","C","K","S","N","V","L"," ","B","C","H"," ","M","U","N","I","C","P","L"," ","G","L">>,
     <<"J","A","C","K","S","O","N","V","I","L","L","E"," ","B","E","A","C","H"," ","G","O","L","F">>,
     <<"B","L","U","E"," ","S","K","Y"," ","G","O","L","F"," ","C","L","U","B">>,
     <<"M","A","R","S","H"," ","L","A","N","D","I","N","G"," ","C","O","U","N","T","R","Y"," ","C","L","U">> >>

\* subscription_keywords (line 303): APPLE.COM, GOOGLE, MICROSOFT, COMCAST, OBSIDIAN, KINDLE SVCS, HELP.MAX.COM, CLKBANK*VINCHECKUP, THE ROKU CHANNEL
subscription_keywords ==
  << <<"A","P","P","L","E",".","C","O","M">>,
     <<"G","O","O","G","L","E">>,
     <<"M","I","C","R","O","S","O","F","T">>,
     <<"C","O","M","C","A","S","T">>,
     <<"O","B","S","I","D","I","A","N">>,
     <<"K","I","N","D","L","E"," ","S","V","C","S">>,
     <<"H","E","L","P",".","M","A","X",".","C","O","M">>,
     <<"C","L","K","B","A","N","K","*","V","I","N","C","H","E","C","K","U","P">>,
     <<"T","H","E"," ","R","O","K","U"," ","C","H","A","N","N","E","L">> >>

\* shopping_keywords (line 312): AMAZON, WALGREENS, SUNRISE SURF, ARGYLE, SP FREAK ATHLETE, SP TITAN FITNESS, NNT MENS WEARHOUSE
shopping_keywords ==
  << <<"A","M","A","Z","O","N">>,
     <<"W","A","L","G","R","E","E","N","S">>,
     <<"S","U","N","R","I","S","E"," ","S","U","R","F">>,
     <<"A","R","G","Y","L","E">>,
     <<"S","P"," ","F","R","E","A","K"," ","A","T","H","L","E","T","E">>,
     <<"S","P"," ","T","I","T","A","N"," ","F","I","T","N","E","S","S">>,
     <<"N","N","T"," ","M","E","N","S"," ","W","E","A","R","H","O","U","S","E">> >>

\* transport_keywords (line 321): CDOT PAY BY CELL
transport_keywords ==
  << <<"C","D","O","T"," ","P","A","Y"," ","B","Y"," ","C","E","L","L">> >>

\* financial_keywords (line 329): STATE FARM, CAPITAL ONE, APPLE CASH SENT MONEY
financial_keywords ==
  << <<"S","T","A","T","E"," ","F","A","R","M">>,
     <<"C","A","P","I","T","A","L"," ","O","N","E">>,
     <<"A","P","P","L","E"," ","C","A","S","H"," ","S","E","N","T"," ","M","O","N","E","Y">> >>

\* housing_keywords (line 337): YSI*PROGRESS RESIDENTIAL, PROGRESS RESIDENTIAL
housing_keywords ==
  << <<"Y","S","I","*","P","R","O","G","R","E","S","S"," ","R","E","S","I","D","E","N","T","I","A","L">>,
     <<"P","R","O","G","R","E","S","S"," ","R","E","S","I","D","E","N","T","I","A","L">> >>

\* tourism_keywords (line 345): VIATORTRIPADVISOR, AIRBNB, FGT*HULAWEENTIX
tourism_keywords ==
  << <<"V","I","A","T","O","R","T","R","I","P","A","D","V","I","S","O","R">>,
     <<"A","I","R","B","N","B">>,
     <<"F","G","T","*","H","U","L","A","W","E","E","N","T","I","X">> >>

---------------------------------------------------------------------------
(* _categorize_cash_card_expense *)

MerchantLabels ==
  {"Food & Dining", "Entertainment & Media", "Gas & Travel",
   "Healthcare & Fitness", "Golf & Recreation", "Subscriptions & Services",
   "Shopping", "Transportation", "Insurance & Financial", "Housing & Rent",
   "Travel & Tourism", "Other Expenses"}

\* Variant in which a later category overwrites an earlier one, as in the
\* outer cascade: the last category with a contained keyword wins.
_categorize_cash_card_expense_last_match(merchant_name) ==
  LET merchant == upper(merchant_name) IN
  IF AnyIn(tourism_keywords, merchant) THEN "Travel & Tourism"
  ELSE IF AnyIn(housing_keywords, merchant) THEN "Housing & Rent"
  ELSE IF AnyIn(financial_keywords, merchant) THEN "Insurance & Financial"
  ELSE IF AnyIn(transport_keywords, merchant) THEN "Transportation"
  ELSE IF AnyIn(shopping_keywords, merchant) THEN "Shopping"
  ELSE IF AnyIn(subscription_keywords, merchant) THEN "Subscriptions & Services"
  ELSE IF AnyIn(golf_keywords, merchant) THEN "Golf & Recreation"
  ELSE IF AnyIn(health_keywords, merchant) THEN "Healthcare & Fitness"
  ELSE IF AnyIn(travel_keywords, merchant) THEN "Gas & Travel"
  ELSE IF AnyIn(entertainment_keywords, merchant) THEN "Entertainment & Media"
  ELSE IF AnyIn(food_keywords, merchant) THEN "Food & Dining"
  ELSE "Other Expenses"

_categorize_cash_card_expense(merchant_name) ==
  LET merchant == upper(merchant_name) IN
  IF AnyIn(food_keywords, merchant) THEN "Food & Dining"
  ELSE IF AnyIn(entertainment_keywords, merchant) THEN "Entertainment & Media"
  ELSE IF AnyIn(travel_keywords, merchant) THEN "Gas & Travel"
  ELSE IF AnyIn(health_keywords, merchant) THEN "Healthcare & Fitness"
  ELSE IF AnyIn(golf_keywords, merchant) THEN "Golf & Recreation"
  ELSE IF AnyIn(subscription_keywords, merchant) THEN "Subscriptions & Services"
  ELSE IF AnyIn(shopping_keywords, merchant) THEN "Shopping"
  ELSE IF AnyIn(transport_keywords, merchant) THEN "Transportation"
  ELSE IF AnyIn(financial_keywords, merchant) THEN "Insurance & Financial"
  ELSE IF AnyIn(housing_keywords, merchant) THEN "Housing & Rent"
  ELSE IF AnyIn(tourism_keywords, merchant) THEN "Travel & Tourism"
  ELSE "Other Expenses"

---------------------------------------------------------------------------
(* The DataFrame of the analyzer *)

VARIABLES
  df,      \* CashAppAnalyzer.df: None, or [cols, rows]
  error,   \* the exception the last categorize_transactions call raised
  runs,    \* number of categorize_transactions calls made so far
  start_date,    \* CashAppAnalyzer.start_date
  end_date,      \* CashAppAnalyzer.end_date
  monthly_data,  \* CashAppAnalyzer.monthly_data
  returned,      \* the last call of a method that returns a value: its name,
                 \* arguments, the exception it raised and the value returned
  csv_file_path,    \* MainWindow.csv_file_path
  selected_range,   \* MainWindow.start_date and MainWindow.end_date
  generate_button,  \* state of MainWindow.generate_button
  progress_bar,     \* MainWindow.progress_bar: "stopped" or "running"
  analyzer,         \* MainWindow.analyzer: 0 (None) or the number of an analyzer
  analyzers,        \* the CashAppAnalyzer objects created by the window
  threads,          \* the worker threads started by the Generate button
  after_queue,      \* the callbacks passed to master.after(0, ...) and not yet run
  data_tree         \* MainWindow.data_tree: the record set it was last filled from

analyzer_vars == <<df, error, runs, start_date, end_date, monthly_data, returned>>

window_vars ==
  <<csv_file_path, selected_range, generate_button, progress_bar, analyzer,
    analyzers, threads, after_queue, data_tree>>

vars == <<analyzer_vars, window_vars>>

\* self.df = None: the frame without any column.
None == [cols |-> {}, rows |-> << >>]

\* self.start_date = None, self.end_date = None, and an argument left None.
\* Dates are day numbers, 1 being 2024-01-01; no date used has number 0.
NoDate == 0

\* self.monthly_data = None
NoMonthlyData == [index |-> {"None"}, columns |-> {"None"}, cells |-> << >>]

\* No method has returned yet.
NothingReturned == [call |-> "none", args |-> << >>, raised |-> "none", value |-> << >>]

\* description_col = None
NoDescriptionCol == "None"

\* Value of a cell whose column the frame does not have.
NoColumn == "<no column>"

\* Transaction types of a Cash App export; 'Standard Transfer' is a type no
\* rule names.
TransactionTypes ==
  {"Bitcoin Buy", "Bitcoin Recurring Buy", "Savings Internal Transfer",
   "Deposits", "P2P", "Cash Card", "Withdrawal", "Savings Interest Payment",
   "Standard Transfer"}

\* Net amounts in cents: +/-1000.00, +/-318.28, -300.00, +3000.00, -10.00
\* and -9.99.
Amounts == {-100000, 100000, -31828, 31828, -30000, 300000, -1000, -999}

PayrollNote ==
  <<"T","h","e"," ","E","n","e","r","g","y"," ","A","u","t","h","o"," ",
    "D","i","r","e","c","t"," ","D","e","p">>
BtcNote == <<"p","u","r","c","h","a","s","e"," ","o","f"," ","B","T","C">>
SavingsNote == <<"S","a","v","i","n","g","s">>
StarbucksNote == <<"S","t","a","r","b","u","c","k","s"," ","#","1","2","3">>

PayrollBtcNote ==
  <<"T","H","E"," ","E","N","E","R","G","Y"," ","A","U","T","H","O"," ",
    "D","I","R","E","C","T"," ","D","E","P"," ","P","u","r","c","h","a","s","e",
    " ","o","f"," ","b","t","c">>

\* Cells of the Notes (or Description) column of a CSV file.
Texts == {PayrollNote, BtcNote, PayrollBtcNote, SavingsNote, StarbucksNote, NaN}

\* Labels a Category column already present in the CSV file may hold.
CsvCategories == {"Investment (Bitcoin)"}

\* Header sets of the CSV files read: the Cash App export, the same with a
\* Category column, a file with Description instead of Notes, a file with
\* only Date, Description and Net Amount, and a file without any text column.
CsvHeaders ==
  { {"Notes", "Transaction Type"},
    {"Notes", "Transaction Type", "Category"},
    {"Description", "Transaction Type"},
    {"Description"},
    {"Transaction Type"} }

CellValues(cols, col, values) == IF col \in cols THEN values ELSE {NoColumn}

CsvRows(cols) ==
  [Net_Amount : Amounts,
   Transaction_Type : CellValues(cols, "Transaction Type", TransactionTypes),
   Notes : IF "Notes" \in cols THEN Texts ELSE {NaN},
   Description : IF "Description" \in cols THEN Texts ELSE {NaN},
   Category : CellValues(cols, "Category", CsvCategories)]

\* Rows that follow the first row: a card purchase of 300.00 with or
\* without a note.
MoreRows(cols) ==
  [Net_Amount : {-30000},
   Transaction_Type : CellValues(cols, "Transaction Type", {"Cash Card"}),
   Notes : IF "Notes" \in cols THEN {StarbucksNote, NaN} ELSE {NaN},
   Description : IF "Description" \in cols THEN {StarbucksNote, NaN} ELSE {NaN},
   Category : CellValues(cols, "Category", CsvCategories)]

SeqsUpTo(S, n) == UNION {[1..k -> S] : k \in 0..n}

\* The files read: a header alone, or a first row of any content followed
\* by up to MaxMoreRows further rows.
CsvFiles ==
  UNION {[cols : {cols},
          rows : {<< >>} \cup
                 {<<first>> \o more : first \in CsvRows(cols),
                                      more \in SeqsUpTo(MoreRows(cols), MaxMoreRows)}] :
           cols \in CsvHeaders}

TransactionText == <<"T","r","a","n","s","a","c","t","i","o","n">>

\* load_and_clean_data on the content of the CSV file: Net_Amount is the
\* parsed amount, Description is a copy of Notes when there is a Notes
\* column, else the file's Description, else the constant 'Transaction'.
load_and_clean_data(csv) ==
  [cols |-> csv.cols \cup {"Net_Amount", "Description"},
   rows |-> [i \in 1..Len(csv.rows) |->
              [csv.rows[i] EXCEPT !.Description =
                 IF "Notes" \in csv.cols THEN csv.rows[i].Notes
                 ELSE IF "Description" \in csv.cols THEN @
                 ELSE TransactionText]]]

\* A missing timestamp: the Date of a row whose date text could not be
\* parsed (errors='coerce').  Dates are day numbers, 1 being 2024-01-01.
NaT == 0

\* Series.dt.to_period('M') on one date: its calendar month (2024 is a leap
\* year), and the missing period for a missing date.
to_period_M(date) ==
  IF date = NaT THEN "NaT"
  ELSE IF date <= 31 THEN "2024-01"
  ELSE IF date <= 60 THEN "2024-02"
  ELSE "2024-03"

\* load_and_clean_data on a CSV file whose rows carry a Date: as above, and
\* Month_Year is the month of the Date (line 111).
load_and_clean_dated(csv) ==
  [cols |-> load_and_clean_data(csv).cols \cup {"Date", "Month_Year"},
   rows |-> [i \in 1..Len(csv.rows) |->
              [Date |-> csv.rows[i].Date,
               Month_Year |-> to_period_M(csv.rows[i].Date),
               Net_Amount |-> csv.rows[i].Net_Amount,
               Transaction_Type |-> csv.rows[i].Transaction_Type,
               Notes |-> csv.rows[i].Notes,
               Description |-> load_and_clean_data(csv).rows[i].Description,
               Category |-> csv.rows[i].Category]]]

Cell(row, col) == IF col = "Notes" THEN row.Notes ELSE row.Description

\* The .str accessor of a column exists only for a column of strings: a
\* column read from a CSV file in which every cell is missing has dtype
\* float64 and .str raises AttributeError; a column of an empty file, or one
\* with at least one string, has dtype object.
HasStrAccessor(d, col) ==
  \/ Len(d.rows) = 0
  \/ \E i \in 1..Len(d.rows) : Cell(d.rows[i], col) # NaN

Abs(x) == IF x < 0 THEN -x ELSE x

---------------------------------------------------------------------------
(* categorize_transactions: the masks, row by row *)

description_col(d) ==
  IF "Notes" \in d.cols THEN "Notes"
  ELSE IF "Description" \in d.cols THEN "Description"
  ELSE NoDescriptionCol

PayrollMarker ==
  <<"T","H","E"," ","E","N","E","R","G","Y"," ","A","U","T","H","O"," ",
    "D","I","R","E","C","T"," ","D","E","P">>

PurchaseOfBTC == <<"p","u","r","c","h","a","s","e"," ","o","f"," ","B","T","C">>

BitcoinTypes == {"Bitcoin Buy", "Bitcoin Recurring Buy"}

income_mask(d, row) == str_contains(Cell(row, description_col(d)), PayrollMarker)

bitcoin_mask(row) ==
  /\ row.Transaction_Type = "Bitcoin Buy" \/ row.Transaction_Type = "Bitcoin Recurring Buy"
  /\ Abs(row.Net_Amount) >= 1000

small_bitcoin_mask(row) ==
  /\ row.Transaction_Type = "Bitcoin Buy" \/ row.Transaction_Type = "Bitcoin Recurring Buy"
  /\ Abs(row.Net_Amount) < 1000

savings_mask(row) == row.Transaction_Type = "Savings Internal Transfer"

bitcoin_savings_mask(d, row) ==
  savings_mask(row) /\ str_contains(Cell(row, description_col(d)), PurchaseOfBTC)

regular_savings_mask(d, row) == savings_mask(row) /\ ~bitcoin_savings_mask(d, row)

deposits_mask(row) == row.Transaction_Type = "Deposits"

\* savings_amounts = [318.28]
savings_amounts == <<31828>>

\* Variant of dca_mask that compares the magnitude, so that the inflow of
\* the same amount matches too.
dca_mask_abs(row, amount) ==
  /\ Abs(row.Net_Amount) = amount
  /\ row.Transaction_Type = "Savings Internal Transfer"
  /\ row.Transaction_Type \notin BitcoinTypes

dca_mask(row, amount) ==
  /\ row.Net_Amount = -amount
  /\ row.Transaction_Type = "Savings Internal Transfer"
  /\ row.Transaction_Type \notin BitcoinTypes

dca_savings_mask(row) ==
  \E n \in 1..Len(savings_amounts) : dca_mask(row, savings_amounts[n])

\* Variant of existing_bitcoin_mask that reads the Category column as it was
\* when categorize_transactions was entered, before line 118 reset it.
existing_bitcoin_mask_stale(row, cat) ==
  row.Category \in {"Investment (Bitcoin)", "Micro-DCA (Bitcoin)"}

\* row is the row as categorize_transactions found it, cat the category the
\* rules before this one have written in the current call.
existing_bitcoin_mask(row, cat) ==
  cat \in {"Investment (Bitcoin)", "Micro-DCA (Bitcoin)"}

final_dca_mask(row, cat) == dca_savings_mask(row) /\ ~existing_bitcoin_mask(row, cat)

\* Variant of rent_offset_mask that takes every amount of at least 1000.00.
rent_offset_mask_at_least(row) ==
  /\ Abs(row.Net_Amount) >= 100000
  /\ row.Transaction_Type \notin BitcoinTypes

\* Variant of rent_offset_mask without the exclusion of the Bitcoin types.
rent_offset_mask_any_type(row) ==
  row.Net_Amount = -100000 \/ row.Net_Amount = 100000

rent_offset_mask(row) ==
  /\ row.Net_Amount = -100000 \/ row.Net_Amount = 100000
  /\ row.Transaction_Type \notin BitcoinTypes

p2p_mask(row) == row.Transaction_Type = "P2P"

cash_card_mask(row) == row.Transaction_Type = "Cash Card"

withdrawal_mask(row) == row.Transaction_Type = "Withdrawal"

interest_mask(row) == row.Transaction_Type = "Savings Interest Payment"

---------------------------------------------------------------------------
(* categorize_transactions: the assignments, in the order of the code.     *)
(* Each takes the category written so far and gives the category after it. *)

Rule1(d, row, cat) ==
  IF description_col(d) # NoDescriptionCol /\ income_mask(d, row) THEN "Income" ELSE cat

Rule2(d, row, cat) ==
  IF "Transaction Type" \notin d.cols THEN cat
  ELSE IF small_bitcoin_mask(row) THEN "Micro-DCA (Bitcoin)"
  ELSE IF bitcoin_mask(row) THEN "Investment (Bitcoin)"
  ELSE cat

Rule3(d, row, cat) ==
  IF "Transaction Type" \notin d.cols THEN cat
  ELSE IF description_col(d) # NoDescriptionCol
  THEN IF regular_savings_mask(d, row) THEN "Savings Transfer"
       ELSE IF bitcoin_savings_mask(d, row) THEN "Investment (Bitcoin Savings)"
       ELSE cat
  ELSE IF savings_mask(row) THEN "Savings Transfer" ELSE cat

\* Variant of rule 4 that leaves a row already labelled 'Income' alone.
Rule4_keep_income(d, row, cat) ==
  IF "Transaction Type" \in d.cols /\ deposits_mask(row) /\ cat # "Income"
  THEN "Internal Transfer" ELSE cat

Rule4(d, row, cat) ==
  IF "Transaction Type" \in d.cols /\ deposits_mask(row)
  THEN "Internal Transfer" ELSE cat

Rule5(row, cat) ==
  IF Len(savings_amounts) > 0 /\ final_dca_mask(row, cat)
  THEN "Investment (DCA Savings)" ELSE cat

RentOffset(row, cat) ==
  IF rent_offset_mask(row) THEN "Rent Offset (Internal)" ELSE cat

Rule6(row, cat) == IF p2p_mask(row) THEN "P2P Transfer" ELSE cat

\* row.get('Notes', '') is the empty text when the frame has no Notes column.
Rule7(d, row, cat) ==
  IF cash_card_mask(row)
  THEN _categorize_cash_card_expense(
         upper(str(IF "Notes" \in d.cols THEN row.Notes ELSE <<>>)))
  ELSE cat

\* Variant of the withdrawal rule that labels only rows still 'Other'.
WithdrawalRule_if_other(row, cat) ==
  IF withdrawal_mask(row) /\ cat = "Other" THEN "Withdrawal" ELSE cat

WithdrawalRule(row, cat) == IF withdrawal_mask(row) THEN "Withdrawal" ELSE cat

InterestRule(row, cat) == IF interest_mask(row) THEN "Interest" ELSE cat

\* The same rules as a first-match dispatch: the first rule a row satisfies
\* decides and later rules do not overwrite it.
CascadeCategory_first_match(d, row) ==
  Rule1(d, row, Rule2(d, row, Rule3(d, row, Rule4(d, row, Rule5(row,
    RentOffset(row, Rule6(row, Rule7(d, row, WithdrawalRule(row,
      InterestRule(row, "Other"))))))))))

\* Category of one row after the whole cascade (lines 118-246).
CascadeCategory(d, row) ==
  LET c0 == "Other"
      c1 == Rule1(d, row, c0)
      c2 == Rule2(d, row, c1)
      c3 == Rule3(d, row, c2)
      c4 == Rule4(d, row, c3)
      c5 == Rule5(row, c4)
      c6 == RentOffset(row, c5)
      c7 == Rule6(row, c6)
      c8 == Rule7(d, row, c7)
      c9 == WithdrawalRule(row, c8)
  IN  InterestRule(row, c9)

\* The frame with its Category column set to the given labels, one per row.
SetCategory(d, labels) ==
  [cols |-> d.cols \cup {"Category"},
   rows |-> [i \in 1..Len(d.rows) |-> [d.rows[i] EXCEPT !.Category = labels[i]]]]

\* categorize_transactions: the frame it leaves and the exception it raises.
\* self.df[description_col].str raises AttributeError (line 129) after the
\* Category column was reset; self.df['Transaction Type'] raises KeyError
\* (line 190) after rule 1 when the frame has no such column.
categorize_transactions(d) ==
  LET Reset == [i \in 1..Len(d.rows) |-> "Other"]
      UpToRule1 == [i \in 1..Len(d.rows) |-> Rule1(d, d.rows[i], "Other")]
      Whole == [i \in 1..Len(d.rows) |-> CascadeCategory(d, d.rows[i])]
  IN  IF description_col(d) # NoDescriptionCol /\ ~HasStrAccessor(d, description_col(d))
      THEN [df |-> SetCategory(d, Reset), error |-> "AttributeError"]
      ELSE IF "Transaction Type" \notin d.cols
      THEN [df |-> SetCategory(d, UpToRule1), error |-> "KeyError"]
      ELSE [df |-> SetCategory(d, Whole), error |-> "none"]

----------------------------------------------------------------------------
(* Date ranges, monthly summary and text report *)

\* datetime.now() of generate_monthly_summary: 2024-02-28.
Now == 59

\* months_back=None.
NoMonths == 0

\* The rows of the frame d dated inside [start, end], both bounds included;
\* a comparison with a missing date is False.
InDateRange_before_end(d, start, end) ==
  {i \in 1..Len(d.rows) :
     /\ d.rows[i].Date # NaT
     /\ d.rows[i].Date >= start
     /\ d.rows[i].Date < end}

InDateRange(d, start, end) ==
  {i \in 1..Len(d.rows) :
     /\ d.rows[i].Date # NaT
     /\ d.rows[i].Date >= start
     /\ d.rows[i].Date <= end}

RECURSIVE SumNetAmount(_, _)
\* Series.sum() of Net_Amount over the rows I of d.
SumNetAmount(d, I) ==
  IF I = {} THEN 0
  ELSE LET i == CHOOSE i \in I : TRUE
       IN  d.rows[i].Net_Amount + SumNetAmount(d, I \ {i})

\* The groups of groupby('Month_Year') over the rows I: a missing month is
\* no group key.
MonthGroups(d, I) == {d.rows[i].Month_Year : i \in I} \ {to_period_M(NaT)}

InMonth(d, I, month) == {i \in I : d.rows[i].Month_Year = month}

\* groupby('Month_Year')['Net_Amount'].agg(['sum', 'count']) with the columns
\* renamed Total_Amount and Transaction_Count.
MonthlyTotals(d, I) ==
  [month \in MonthGroups(d, I) |->
     [Total_Amount |-> SumNetAmount(d, InMonth(d, I, month)),
      Transaction_Count |-> Cardinality(InMonth(d, I, month))]]

\* groupby(['Month_Year', 'Category'])['Net_Amount'].sum().unstack(fill_value=0).
MonthlyData(d, I) ==
  LET dated == {i \in I : d.rows[i].Month_Year # to_period_M(NaT)}
      categories == {d.rows[i].Category : i \in dated}
  IN  [index |-> MonthGroups(d, I),
       columns |-> categories,
       cells |-> [cell \in MonthGroups(d, I) \X categories |->
                    SumNetAmount(d, {i \in InMonth(d, I, cell[1]) :
                                       d.rows[i].Category = cell[2]})]]

generate_monthly_summary_months_back_first(d, sd, ed, months_back, start, end) ==
  LET explicit == start # NoDate /\ end # NoDate
      stored == sd # NoDate /\ ed # NoDate
      from == IF explicit THEN start
              ELSE IF months_back # NoMonths THEN Now - months_back * 30
              ELSE IF stored THEN sd
              ELSE Now - 6 * 30
      to == IF explicit THEN end
            ELSE IF months_back # NoMonths THEN Now
            ELSE IF stored THEN ed ELSE Now
      filtered_df == InDateRange(d, from, to)
  IN  [start_date |-> IF explicit THEN start ELSE sd,
       end_date |-> IF explicit THEN end ELSE ed,
       monthly_data |-> MonthlyData(d, filtered_df),
       monthly_totals |-> MonthlyTotals(d, filtered_df)]

\* generate_monthly_summary(months_back, start_date, end_date) on the frame d
\* of an analyzer whose stored range is [sd, ed]: the range it stores, the
\* monthly_data it stores and the monthly_totals it returns.
generate_monthly_summary(d, sd, ed, months_back, start, end) ==
  LET explicit == start # NoDate /\ end # NoDate
      stored == sd # NoDate /\ ed # NoDate
      from == IF explicit THEN start
              ELSE IF stored THEN sd
              ELSE IF months_back # NoMonths THEN Now - months_back * 30
              ELSE Now - 6 * 30
      to == IF explicit THEN end ELSE IF stored THEN ed ELSE Now
      filtered_df == InDateRange(d, from, to)
  IN  [start_date |-> IF explicit THEN start ELSE sd,
       end_date |-> IF explicit THEN end ELSE ed,
       monthly_data |-> MonthlyData(d, filtered_df),
       monthly_totals |-> MonthlyTotals(d, filtered_df)]

df_to_report_ignoring_stored(d, sd, ed, start, end) ==
  IF start # NoDate /\ end # NoDate THEN InDateRange(d, start, end)
  ELSE 1..Len(d.rows)

\* The rows generate_report(start_date, end_date) reports on.
df_to_report(d, sd, ed, start, end) ==
  IF start # NoDate /\ end # NoDate THEN InDateRange(d, start, end)
  ELSE IF sd # NoDate /\ ed # NoDate THEN InDateRange(d, sd, ed)
  ELSE 1..Len(d.rows)

internal_categories ==
  {"Internal Transfer", "Rent Offset (Internal)", "Savings Transfer", "Deposits"}

investment_categories_with_micro_dca ==
  {"Investment (Bitcoin)", "Investment (DCA Savings)",
   "Investment (Bitcoin Savings)", "Investment (Potential DCA)",
   "Micro-DCA (Bitcoin)"}

investment_categories ==
  {"Investment (Bitcoin)", "Investment (DCA Savings)",
   "Investment (Bitcoin Savings)", "Investment (Potential DCA)"}

expense_data_with_investments(d, I) ==
  {i \in I : /\ d.rows[i].Net_Amount < 0
             /\ d.rows[i].Category \notin internal_categories}

expense_data(d, I) ==
  {i \in I : /\ d.rows[i].Net_Amount < 0
             /\ d.rows[i].Category \notin internal_categories
             /\ d.rows[i].Category \notin investment_categories}

income_data(d, I) ==
  {i \in I : /\ d.rows[i].Net_Amount > 0
             /\ d.rows[i].Category \notin internal_categories}

investment_data(d, I) ==
  {i \in I : /\ d.rows[i].Net_Amount < 0
             /\ d.rows[i].Category \in investment_categories}

\* The rows of the LARGE PAYMENTS & BONUSES section: 10000 dollars or more,
\* or a bonus label.
bonus_transactions(d, I) ==
  {i \in I : \/ d.rows[i].Category \in {"Bonus/Large Payment", "Large Income/Payment"}
             \/ d.rows[i].Net_Amount >= 10000 * 100}

RECURSIVE InIndexOrder(_)
\* The row labels I in the order of the frame.
InIndexOrder(I) ==
  IF I = {} THEN << >>
  ELSE LET i == CHOOSE i \in I : \A j \in I : i <= j
       IN  <<i>> \o InIndexOrder(I \ {i})

\* pd.concat([income_data, expense_data, investment_data]).
all_transaction_data(d, I) ==
  InIndexOrder(income_data(d, I)) \o InIndexOrder(expense_data(d, I))
    \o InIndexOrder(investment_data(d, I))

RemoveAt(seq, p) == [q \in 1..(Len(seq) - 1) |-> IF q < p THEN seq[q] ELSE seq[q + 1]]

RECURSIVE nlargest(_, _, _)
\* Net_Amount.abs().nlargest(n) over the rows listed in order: the n largest
\* absolute amounts, largest first, the first occurrence first among equals.
nlargest(d, order, n) ==
  IF n = 0 \/ order = << >> THEN << >>
  ELSE LET p == CHOOSE p \in 1..Len(order) :
                  \A q \in 1..Len(order) :
                     \/ Abs(d.rows[order[p]].Net_Amount) > Abs(d.rows[order[q]].Net_Amount)
                     \/ /\ Abs(d.rows[order[p]].Net_Amount) = Abs(d.rows[order[q]].Net_Amount)
                        /\ p <= q
       IN  <<order[p]>> \o nlargest(d, RemoveAt(order, p), n - 1)

top_5(d, I) == nlargest(d, all_transaction_data(d, I), 5)

MinDate(d, I) == CHOOSE date \in {d.rows[i].Date : i \in I} \ {NaT} :
                   \A i \in I : d.rows[i].Date = NaT \/ date <= d.rows[i].Date

MaxDate(d, I) == CHOOSE date \in {d.rows[i].Date : i \in I} \ {NaT} :
                   \A i \in I : d.rows[i].Date = NaT \/ date >= d.rows[i].Date

\* The head of the report: period, number of transactions, net amount.
ReportHead(d, I) ==
  IF I = {}
  THEN [analysis_period |-> <<"No data in selected range">>,
        total_transactions |-> 0,
        net_amount |-> 0]
  ELSE [analysis_period |-> <<MinDate(d, I), MaxDate(d, I)>>,
        total_transactions |-> Cardinality(I),
        net_amount |-> SumNetAmount(d, I)]

net_amount_including_investments_added(total_income, total_expenses, total_investments) ==
  total_income + total_expenses + total_investments

\* Net cash flow including investments (lines 724-725).
net_amount_including_investments(total_income, total_expenses, total_investments) ==
  (total_income + total_expenses) - total_investments

\* The sections printed for a non-empty frame: monthly summary, the three
\* roles and their totals, the two net cash flows and the top 5.
ReportBody(d, I) ==
  [monthly_summary |-> MonthlyTotals(d, I),
   income_data |-> income_data(d, I),
   expense_data |-> expense_data(d, I),
   investment_data |-> investment_data(d, I),
   total_income |-> SumNetAmount(d, income_data(d, I)),
   total_expenses |-> SumNetAmount(d, expense_data(d, I)),
   total_investments |-> Abs(SumNetAmount(d, investment_data(d, I))),
   net_amount_excluding_investments |->
     SumNetAmount(d, income_data(d, I)) + SumNetAmount(d, expense_data(d, I)),
   net_amount_including_investments |->
     net_amount_including_investments(SumNetAmount(d, income_data(d, I)),
                                      SumNetAmount(d, expense_data(d, I)),
                                      Abs(SumNetAmount(d, investment_data(d, I)))),
   top_5 |-> top_5(d, I)]

\* The rates, printed when total_income > 0 (lines 733-739): each is a
\* quotient times 100, kept as numerator and denominator.
ReportRates(body) ==
  [cash_savings_rate |->
     [num |-> body.net_amount_excluding_investments * 100, den |-> body.total_income],
   investment_rate |->
     [num |-> body.total_investments * 100, den |-> body.total_income],
   total_savings_rate |->
     [num |-> (body.net_amount_excluding_investments + body.total_investments) * 100,
      den |-> body.total_income]]

\* Timestamp.strftime raises ValueError on a missing date: the earliest date
\* of a frame without any date (line 599), the date of a row of the bonus
\* section (line 621) or of the top 5 (line 764).
StrftimeRaises(d, I) ==
  \/ \A i \in I : d.rows[i].Date = NaT
  \/ \E i \in bonus_transactions(d, I) : d.rows[i].Date = NaT
  \/ \E p \in 1..Len(top_5(d, I)) : d.rows[top_5(d, I)[p]].Date = NaT

generate_report_rates_always(d, sd, ed, start, end) ==
  LET I == df_to_report(d, sd, ed, start, end)
      body == ReportBody(d, I)
  IN  IF I = {} THEN [raised |-> "none", value |-> ReportHead(d, I)]
      ELSE IF StrftimeRaises(d, I) THEN [raised |-> "ValueError", value |-> << >>]
      ELSE [raised |-> "none", value |-> ReportHead(d, I) @@ body @@ ReportRates(body)]

\* generate_report(start_date, end_date) on the frame d of an analyzer whose
\* stored range is [sd, ed]: the exception it raises and the figures of the
\* report it returns.
generate_report(d, sd, ed, start, end) ==
  LET I == df_to_report(d, sd, ed, start, end)
      body == ReportBody(d, I)
  IN  IF I = {} THEN [raised |-> "none", value |-> ReportHead(d, I)]
      ELSE IF StrftimeRaises(d, I) THEN [raised |-> "ValueError", value |-> << >>]
      ELSE IF body.total_income > 0
      THEN [raised |-> "none", value |-> ReportHead(d, I) @@ body @@ ReportRates(body)]
      ELSE [raised |-> "none", value |-> ReportHead(d, I) @@ body]

----------------------------------------------------------------------------
(* The main window *)

\* self.csv_file_path = None
NoFile == "None"

\* self.analyzer = None
NoAnalyzer == 0

\* MainWindow.__init__ and setup_ui: no file, no date range, no analyzer,
\* the Generate button created disabled (line 134), no worker thread, no
\* pending callback, the data viewer showing its placeholder.
InitMainWindow ==
  /\ csv_file_path = NoFile
  /\ selected_range = <<NoDate, NoDate>>
  /\ generate_button = "disabled"
  /\ progress_bar = "stopped"
  /\ analyzer = NoAnalyzer
  /\ analyzers = << >>
  /\ threads = << >>
  /\ after_queue = << >>
  /\ data_tree = "placeholder"

---------------------------------------------------------------------------
(* The analyzer as a state machine *)

\* CashAppAnalyzer.__init__
Init ==
  /\ df = None
  /\ error = "none"
  /\ runs = 0
  /\ start_date = NoDate
  /\ end_date = NoDate
  /\ monthly_data = NoMonthlyData
  /\ returned = NothingReturned
  /\ InitMainWindow

\* analyzer.load_and_clean_data() on some CSV file.
LoadAndCleanData ==
  /\ df = None
  /\ \E csv \in CsvFiles : df' = load_and_clean_data(csv)
  /\ UNCHANGED <<error, runs, start_date, end_date, monthly_data, returned, window_vars>>

\* analyzer.categorize_transactions(), called after load_and_clean_data.
CategorizeTransactions ==
  /\ df # None
  /\ runs < MaxRuns
  /\ LET result == categorize_transactions(df) IN
       /\ df' = result.df
       /\ error' = result.error
  /\ runs' = runs + 1
  /\ UNCHANGED <<start_date, end_date, monthly_data, returned, window_vars>>

Next == LoadAndCleanData \/ CategorizeTransactions

Spec == Init /\ [][Next]_vars

---------------------------------------------------------------------------
(* _categorize_cash_card_expense called on its own *)

AllKeywordLists ==
  <<food_keywords, entertainment_keywords, travel_keywords, health_keywords,
    golf_keywords, subscription_keywords, shopping_keywords,
    transport_keywords, financial_keywords, housing_keywords, tourism_keywords>>

AllKeywords ==
  UNION {{AllKeywordLists[c][n] : n \in 1..Len(AllKeywordLists[c])} :
           c \in 1..Len(AllKeywordLists)}

\* The first keyword of every list.
FirstKeywords == {AllKeywordLists[c][1] : c \in 1..Len(AllKeywordLists)}

ChipotleName ==
  <<"C","H","I","P","O","T","L","E"," ","M","E","X","I","C","A","N"," ",
    "G","R","I","L","L">>
NetflixName == <<"N","E","T","F","L","I","X",".","C","O","M">>
UnknownName ==
  <<"U","N","K","N","O","W","N"," ","M","E","R","C","H","A","N","T">>

\* Merchant names the classifier is called with: every keyword alone, two
\* keywords of any two lists separated by a blank, the names of
\* test_merchant_categorization, a lower-case name, the empty name and the
\* name 'NAN' that a missing note gives.
MerchantNames ==
  AllKeywords
    \cup {a \o <<" ">> \o b : a \in FirstKeywords, b \in FirstKeywords}
    \cup {ChipotleName, NetflixName, UnknownName, StarbucksNote, << >>,
          upper(str(NaN))}

CallCategorizeCashCardExpense ==
  /\ \E merchant_name \in MerchantNames :
       returned' = [call |-> "_categorize_cash_card_expense",
                    args |-> merchant_name,
                    raised |-> "none",
                    value |-> _categorize_cash_card_expense(merchant_name)]
  /\ UNCHANGED <<df, error, runs, start_date, end_date, monthly_data, window_vars>>

NextMerchant == CallCategorizeCashCardExpense

SpecMerchant == Init /\ [][NextMerchant]_vars

----------------------------------------------------------------------------
(* The analyzer reporting on a dated statement *)

\* Dates of the rows: unparseable, 2024-01-15, 2024-02-10.
StatementDates == {NaT, 15, 41}

\* Ranges selected: January 2024, and 2024-01-15 to 2024-02-10.
DateRanges == {<<1, 31>>, <<15, 41>>}

NoRange == <<NoDate, NoDate>>

\* Rows of a statement: 50.00 received, 5.00 and 318.28 paid, as a Bitcoin
\* buy, a savings transfer, a card purchase or a standard transfer.
StatementRows ==
  [Date : StatementDates,
   Net_Amount : {5000, -500, -31828},
   Transaction_Type : {"Bitcoin Buy", "Savings Internal Transfer", "Cash Card",
                       "Standard Transfer"},
   Notes : {PayrollNote},
   Description : {NaN},
   Category : {NoColumn}]

\* Rows that follow the first row: a card purchase of 300.00 in February,
\* a payroll deposit of 3000.00 in January, a Bitcoin buy of 318.28 in
\* February, and a savings transfer of 5.00 in January.
MoreStatementRows ==
  {[Date |-> 41, Net_Amount |-> -30000, Transaction_Type |-> "Cash Card",
    Notes |-> StarbucksNote, Description |-> NaN, Category |-> NoColumn],
   [Date |-> 15, Net_Amount |-> 300000, Transaction_Type |-> "Standard Transfer",
    Notes |-> PayrollNote, Description |-> NaN, Category |-> NoColumn],
   [Date |-> 41, Net_Amount |-> -31828, Transaction_Type |-> "Bitcoin Buy",
    Notes |-> BtcNote, Description |-> NaN, Category |-> NoColumn],
   [Date |-> 15, Net_Amount |-> -500, Transaction_Type |-> "Savings Internal Transfer",
    Notes |-> SavingsNote, Description |-> NaN, Category |-> NoColumn]}

\* The statements read: a header alone, or a first row of any content
\* followed by up to MaxMoreRows further rows.
StatementFiles ==
  [cols : {{"Notes", "Transaction Type"}},
   rows : {<< >>} \cup
          {<<first>> \o more : first \in StatementRows,
                               more \in SeqsUpTo(MoreStatementRows, MaxMoreRows)}]

\* analyzer.load_and_clean_data() on some statement.
LoadStatement ==
  /\ df = None
  /\ \E csv \in StatementFiles : df' = load_and_clean_dated(csv)
  /\ UNCHANGED <<error, runs, start_date, end_date, monthly_data, returned, window_vars>>

\* analyzer.categorize_transactions(), called once after load_and_clean_data.
CategorizeStatement ==
  /\ runs = 0
  /\ CategorizeTransactions

\* analyzer.set_date_range(start_date, end_date), lines 354-358.
SetDateRange ==
  /\ df # None
  /\ \E range \in DateRanges :
       /\ start_date' = range[1]
       /\ end_date' = range[2]
  /\ UNCHANGED <<df, error, runs, monthly_data, returned, window_vars>>

\* analyzer.generate_monthly_summary(months_back, start_date, end_date),
\* called after categorize_transactions.
GenerateMonthlySummary ==
  /\ runs >= 1
  /\ \E months_back \in {NoMonths, 1}, range \in DateRanges \cup {NoRange} :
       LET result == generate_monthly_summary(df, start_date, end_date,
                                              months_back, range[1], range[2])
       IN  /\ start_date' = result.start_date
           /\ end_date' = result.end_date
           /\ monthly_data' = result.monthly_data
           /\ returned' = [call |-> "generate_monthly_summary",
                           args |-> <<months_back, range[1], range[2]>>,
                           raised |-> "none",
                           value |-> result.monthly_totals]
  /\ UNCHANGED <<df, error, runs, window_vars>>

\* analyzer.generate_report(start_date, end_date), called after
\* categorize_transactions.
GenerateReport ==
  /\ runs >= 1
  /\ \E range \in DateRanges \cup {NoRange} :
       LET result == generate_report(df, start_date, end_date, range[1], range[2])
       IN  returned' = [call |-> "generate_report",
                        args |-> range,
                        raised |-> result.raised,
                        value |-> result.value]
  /\ UNCHANGED <<df, error, runs, start_date, end_date, monthly_data, window_vars>>

NextReport ==
  \/ LoadStatement
  \/ CategorizeStatement
  \/ SetDateRange
  \/ GenerateMonthlySummary
  \/ GenerateReport

SpecReport == Init /\ [][NextReport]_vars

----------------------------------------------------------------------------
(* The analyzer reporting on a statement of more than five rows *)

\* Number of rows of a long statement.
LongStatementLen == 6

\* Rows of a long statement, all dated 2024-01-15: a card purchase of 50.00,
\* a payroll transfer of 50.00 received and a savings transfer of 400.00.
LongStatementRows ==
  {[Date |-> 15, Net_Amount |-> -5000, Transaction_Type |-> "Cash Card",
    Notes |-> StarbucksNote, Description |-> NaN, Category |-> NoColumn],
   [Date |-> 15, Net_Amount |-> 5000, Transaction_Type |-> "Standard Transfer",
    Notes |-> PayrollNote, Description |-> NaN, Category |-> NoColumn],
   [Date |-> 15, Net_Amount |-> -40000, Transaction_Type |-> "Savings Internal Transfer",
    Notes |-> SavingsNote, Description |-> NaN, Category |-> NoColumn]}

LongStatementFiles ==
  [cols : {{"Notes", "Transaction Type"}},
   rows : [1..LongStatementLen -> LongStatementRows]]

\* analyzer.load_and_clean_data() on some long statement.
LoadLongStatement ==
  /\ df = None
  /\ \E csv \in LongStatementFiles : df' = load_and_clean_dated(csv)
  /\ UNCHANGED <<error, runs, start_date, end_date, monthly_data, returned, window_vars>>

NextTop5 ==
  \/ LoadLongStatement
  \/ CategorizeStatement
  \/ GenerateReport

SpecTop5 == Init /\ [][NextTop5]_vars

----------------------------------------------------------------------------
(* The cash flow dashboard *)

\* internal_categories of create_cash_flow_visualizations.
cash_flow_internal_categories ==
  {"Internal Transfer", "Rent Offset (Internal)", "Savings Transfer", "Deposits",
   "Potential DCA (Internal)"}

\* investment_categories of create_cash_flow_visualizations.
cash_flow_investment_categories ==
  {"Investment (Bitcoin)", "Investment (DCA Savings)"}

cash_flow_income_data(d, I) ==
  {i \in I : /\ d.rows[i].Net_Amount > 0
             /\ d.rows[i].Category \notin cash_flow_internal_categories
             /\ d.rows[i].Category \notin cash_flow_investment_categories}

cash_flow_expense_data(d, I) ==
  {i \in I : /\ d.rows[i].Net_Amount < 0
             /\ d.rows[i].Category \notin cash_flow_internal_categories
             /\ d.rows[i].Category \notin cash_flow_investment_categories}

cash_flow_investment_data(d, I) ==
  {i \in I : /\ d.rows[i].Net_Amount < 0
             /\ d.rows[i].Category \in cash_flow_investment_categories}

\* groupby('Month_Year')['Net_Amount'].sum() of the rows I, reindexed on
\* all_months with fill_value=0 (absolute for expenses and investments).
MonthlySeries(d, I, all_months) ==
  [month \in all_months |-> Abs(SumNetAmount(d, InMonth(d, I, month)))]

\* create_cash_flow_visualizations(start_date, end_date) on the frame d of
\* an analyzer whose stored range is [sd, ed]: the three roles and the
\* monthly series the dashboard draws.
create_cash_flow_visualizations(d, sd, ed, start, end) ==
  LET df_to_plot == df_to_report(d, sd, ed, start, end)
      income == cash_flow_income_data(d, df_to_plot)
      expense == cash_flow_expense_data(d, df_to_plot)
      investment == cash_flow_investment_data(d, df_to_plot)
      all_months == IF MonthGroups(d, income \cup expense \cup investment) # {}
                    THEN MonthGroups(d, income \cup expense \cup investment)
                    ELSE MonthGroups(d, df_to_plot)
  IN  [income_data |-> income,
       expense_data |-> expense,
       investment_data |-> investment,
       monthly_income |-> MonthlySeries(d, income, all_months),
       monthly_expenses |-> MonthlySeries(d, expense, all_months),
       monthly_investments |-> MonthlySeries(d, investment, all_months)]

\* analyzer.create_cash_flow_visualizations(start_date, end_date), called
\* after categorize_transactions.
CreateCashFlowVisualizations ==
  /\ runs >= 1
  /\ \E range \in DateRanges \cup {NoRange} :
       returned' = [call |-> "create_cash_flow_visualizations",
                    args |-> range,
                    raised |-> "none",
                    value |-> create_cash_flow_visualizations(
                                df, start_date, end_date, range[1], range[2])]
  /\ UNCHANGED <<df, error, runs, start_date, end_date, monthly_data, window_vars>>

NextDashboard ==
  \/ LoadStatement
  \/ CategorizeStatement
  \/ SetDateRange
  \/ CreateCashFlowVisualizations

SpecDashboard == Init /\ [][NextDashboard]_vars

----------------------------------------------------------------------------
(* The main window: UI events, worker threads and their callbacks *)

\* Number of worker threads started.
MaxClicks == 2

\* The CSV files the user selects.
Files == {"january.csv", "february.csv"}

\* The date range the user selects.
SelectedRanges == {<<1, 31>>}

\* update_generate_button_state, lines 279-285.
update_generate_button_state(file_path) ==
  IF file_path # NoFile THEN "normal" ELSE "disabled"

\* on_csv_selected(file_path), lines 258-267.
OnCsvSelected ==
  /\ \E file_path \in Files :
       /\ csv_file_path' = file_path
       /\ generate_button' = update_generate_button_state(file_path)
  /\ UNCHANGED <<selected_range, progress_bar, analyzer, analyzers, threads,
                 after_queue, data_tree, analyzer_vars>>

\* on_date_range_selected(start_date, end_date), lines 269-277.
OnDateRangeSelected ==
  /\ \E range \in SelectedRanges : selected_range' = range
  /\ generate_button' = update_generate_button_state(csv_file_path)
  /\ UNCHANGED <<csv_file_path, progress_bar, analyzer, analyzers, threads,
                 after_queue, data_tree, analyzer_vars>>

\* A click on the Generate button, which a disabled button ignores:
\* generate_selected_report, then generate_report (lines 287-301) or
\* generate_pdf_report (lines 472-486), which start a worker thread.
ClickGenerate ==
  /\ generate_button = "normal"
  /\ Len(threads) < MaxClicks
  /\ \E report_type \in {"Summary Report", "Comprehensive PDF Report"} :
       IF csv_file_path = NoFile
       THEN UNCHANGED <<generate_button, progress_bar, threads>>
       ELSE /\ generate_button' = "disabled"
            /\ progress_bar' = "running"
            /\ threads' = Append(threads,
                 [target |-> IF report_type = "Summary Report"
                             THEN "_run_analysis" ELSE "_run_pdf_generation",
                  pc |-> "start",
                  clicked |-> csv_file_path,
                  self |-> NoAnalyzer,
                  pdf_from |-> NoFile,
                  callbacks |-> 0])
  /\ UNCHANGED <<csv_file_path, selected_range, analyzer, analyzers,
                 after_queue, data_tree, analyzer_vars>>

\* The thread t posts a callback with master.after(0, ...) and goes on at pc.
Post(t, callback, pc) ==
  /\ after_queue' = Append(after_queue, [callback |-> callback, thread |-> t, bound |-> TRUE])
  /\ threads' = [threads EXCEPT ![t].pc = pc]

\* The frame of the analyzer a has a Category column.
HasCategory(a) == analyzers[a].df \in {"categorizing", "categorized"}

\* Both workers: self.analyzer = CashAppAnalyzer(self.csv_file_path) (lines
\* 313 and 493); _run_pdf_generation creates one only when the window has
\* none (line 492).
CreateAnalyzer(t) ==
  /\ threads[t].pc = "start"
  /\ IF threads[t].target = "_run_pdf_generation" /\ analyzer # NoAnalyzer
     THEN /\ threads' = [threads EXCEPT ![t].pc = "pdf"]
          /\ UNCHANGED <<analyzer, analyzers>>
     ELSE /\ analyzers' = Append(analyzers, [csv |-> csv_file_path, df |-> "None"])
          /\ analyzer' = Len(analyzers) + 1
          /\ threads' = [threads EXCEPT ![t].pc = "load"]
  /\ UNCHANGED <<csv_file_path, selected_range, generate_button, progress_bar,
                 after_queue, data_tree, analyzer_vars>>

\* The worker's handler of an exception of the analyzer: _run_analysis posts
\* _on_analysis_error (lines 337-340), _run_pdf_generation tries the
\* fallback (lines 507-530).
Raise(t) ==
  IF threads[t].target = "_run_analysis"
  THEN Post(t, "_on_analysis_error", "done")
  ELSE /\ threads' = [threads EXCEPT ![t].pc = "fallback"]
       /\ UNCHANGED after_queue

\* self.analyzer.load_and_clean_data() (lines 319 and 494) on the analyzer
\* the window holds now: it reads the file into a frame, or raises.
WorkerLoad(t) ==
  /\ threads[t].pc = "load"
  /\ \E outcome \in {"returns", "raises"} :
       IF outcome = "returns"
       THEN /\ analyzers' = [analyzers EXCEPT ![analyzer].df = "loaded"]
            /\ threads' = [threads EXCEPT ![t].pc = "categorize"]
            /\ UNCHANGED after_queue
       ELSE /\ Raise(t)
            /\ UNCHANGED analyzers
  /\ UNCHANGED <<csv_file_path, selected_range, generate_button, progress_bar,
                 analyzer, data_tree, analyzer_vars>>

\* self.analyzer.categorize_transactions() (lines 320 and 495) is called on
\* the analyzer the window holds now: on a frame it resets the Category
\* column (line 118), without a frame it raises TypeError.
WorkerCategorize(t) ==
  /\ threads[t].pc = "categorize"
  /\ IF analyzers[analyzer].df = "None"
     THEN /\ Raise(t)
          /\ UNCHANGED analyzers
     ELSE /\ analyzers' = [analyzers EXCEPT ![analyzer].df = "categorizing"]
          /\ threads' = [threads EXCEPT ![t].pc = "categorizing", ![t].self = analyzer]
          /\ UNCHANGED after_queue
  /\ UNCHANGED <<csv_file_path, selected_range, generate_button, progress_bar,
                 analyzer, data_tree, analyzer_vars>>

\* categorize_transactions applies its last rule and returns, or raises on
\* the way; the frame is completely categorized when it returns and no other
\* thread has replaced the frame since the call began.
WorkerCategorized(t) ==
  /\ threads[t].pc = "categorizing"
  /\ \E outcome \in {"returns", "raises"} :
       IF outcome = "returns"
       THEN /\ analyzers' = [analyzers EXCEPT ![threads[t].self].df =
                               IF @ = "categorizing" THEN "categorized" ELSE "categorizing"]
            /\ threads' = [threads EXCEPT ![t].pc =
                             IF threads[t].target = "_run_analysis" THEN "aggregate" ELSE "pdf"]
            /\ UNCHANGED after_queue
       ELSE /\ Raise(t)
            /\ UNCHANGED analyzers
  /\ UNCHANGED <<csv_file_path, selected_range, generate_button, progress_bar,
                 analyzer, data_tree, analyzer_vars>>

\* _run_analysis, lines 322-335: generate_monthly_summary and generate_report
\* on the analyzer the window holds now, then the completion callback; both
\* raise on a frame without Category column and may raise on others.
WorkerAggregate(t) ==
  /\ threads[t].pc = "aggregate"
  /\ \E outcome \in {"returns", "raises"} :
       IF outcome = "returns" /\ HasCategory(analyzer)
       THEN Post(t, "_on_analysis_complete", "done")
       ELSE Post(t, "_on_analysis_error", "done")
  /\ UNCHANGED <<csv_file_path, selected_range, generate_button, progress_bar,
                 analyzer, analyzers, data_tree, analyzer_vars>>

\* _run_pdf_generation, lines 497-512: generate_comprehensive_pdf_report on
\* the analyzer the window holds now builds the PDF from its frame, raises
\* ValueError 'No data found for the period', or raises something else.
WorkerPdf(t) ==
  /\ threads[t].pc = "pdf"
  /\ \E outcome \in {"returns", "no data", "raises"} :
       IF outcome = "returns" /\ HasCategory(analyzer)
       THEN /\ after_queue' = Append(after_queue,
                 [callback |-> "_on_pdf_complete", thread |-> t, bound |-> TRUE])
            /\ threads' = [threads EXCEPT ![t].pc = "done",
                                          ![t].pdf_from = analyzers[analyzer].csv]
       ELSE IF outcome = "no data"
       THEN Post(t, "_on_pdf_error", "done")
       ELSE /\ threads' = [threads EXCEPT ![t].pc = "fallback"]
            /\ UNCHANGED after_queue
  /\ UNCHANGED <<csv_file_path, selected_range, generate_button, progress_bar,
                 analyzer, analyzers, data_tree, analyzer_vars>>

\* _run_pdf_generation, lines 513-530: the fallback generate_pdf_report.
\* The lambda posted when it raises reads fallback_error (and e), which the
\* worker unbinds when it leaves the except block: the names are bound or
\* not when the UI thread runs the lambda.
WorkerFallback(t) ==
  /\ threads[t].pc = "fallback"
  /\ \E outcome \in {"returns", "raises"} :
       IF outcome = "returns" /\ analyzer # NoAnalyzer /\ HasCategory(analyzer)
       THEN /\ after_queue' = Append(after_queue,
                 [callback |-> "_on_pdf_complete", thread |-> t, bound |-> TRUE])
            /\ threads' = [threads EXCEPT ![t].pc = "done",
                                          ![t].pdf_from = analyzers[analyzer].csv]
       ELSE \E bound \in BOOLEAN :
              /\ after_queue' = Append(after_queue,
                   [callback |-> "_on_pdf_error", thread |-> t, bound |-> bound])
              /\ threads' = [threads EXCEPT ![t].pc = "done"]
  /\ UNCHANGED <<csv_file_path, selected_range, generate_button, progress_bar,
                 analyzer, analyzers, data_tree, analyzer_vars>>

\* A step of the worker thread t.
Worker(t) ==
  \/ CreateAnalyzer(t)
  \/ WorkerLoad(t)
  \/ WorkerCategorize(t)
  \/ WorkerCategorized(t)
  \/ WorkerAggregate(t)
  \/ WorkerPdf(t)
  \/ WorkerFallback(t)

WorkerStep == \E t \in 1..Len(threads) : Worker(t)


\* populate_data_viewer (lines 691-701) and the reading part of filter_data
\* (lines 570-598): the record set the data viewer is filled from.  Without
\* analyzer or frame both return at once; on a frame without Category column
\* they raise KeyError after the frame was read.
ReadByViewer ==
  IF analyzer = NoAnalyzer \/ analyzers[analyzer].df = "None"
  THEN data_tree
  ELSE analyzers[analyzer].df

\* The UI thread runs the oldest pending callback: _on_analysis_complete
\* (lines 342-401), which fills the data viewer before it enables the
\* button, _on_analysis_error (403-409), _on_pdf_complete (532-558) or
\* _on_pdf_error (560-567); a lambda whose names are unbound raises
\* NameError and calls nothing.
RunCallback ==
  /\ after_queue # << >>
  /\ after_queue' = Tail(after_queue)
  /\ LET head == Head(after_queue) IN
       IF ~head.bound
       THEN UNCHANGED <<generate_button, progress_bar, threads, data_tree>>
       ELSE /\ progress_bar' = "stopped"
            /\ threads' = [threads EXCEPT ![head.thread].callbacks = @ + 1]
            /\ IF head.callback = "_on_analysis_complete"
               THEN /\ data_tree' = ReadByViewer
                    /\ generate_button' =
                         IF ReadByViewer = "loaded" THEN generate_button ELSE "normal"
               ELSE /\ generate_button' = "normal"
                    /\ UNCHANGED data_tree
  /\ UNCHANGED <<csv_file_path, selected_range, analyzer, analyzers, analyzer_vars>>

\* filter_data, bound to the search box and the category box (lines 201, 209).
FilterData ==
  /\ data_tree' = ReadByViewer
  /\ UNCHANGED <<csv_file_path, selected_range, generate_button, progress_bar,
                 analyzer, analyzers, threads, after_queue, analyzer_vars>>

\* clear_filters (lines 600-604) resets the two boxes and calls filter_data.
ClearFilters ==
  /\ data_tree' = ReadByViewer
  /\ UNCHANGED <<csv_file_path, selected_range, generate_button, progress_bar,
                 analyzer, analyzers, threads, after_queue, analyzer_vars>>

\* export_data (lines 606-637): with an analyzer and a file name chosen in
\* the dialog it calls filter_data and writes the rows of the data viewer.
ExportData ==
  /\ analyzer # NoAnalyzer
  /\ \E chosen \in BOOLEAN :
       data_tree' = IF chosen THEN ReadByViewer ELSE data_tree
  /\ UNCHANGED <<csv_file_path, selected_range, generate_button, progress_bar,
                 analyzer, analyzers, threads, after_queue, analyzer_vars>>

NextGui ==
  \/ OnCsvSelected
  \/ OnDateRangeSelected
  \/ ClickGenerate
  \/ WorkerStep
  \/ RunCallback
  \/ FilterData
  \/ ClearFilters
  \/ ExportData

SpecGui == Init /\ [][NextGui]_vars

\* The threads are scheduled and the Tk main loop runs the pending callbacks.
SpecGuiLive ==
  /\ SpecGui
  /\ \A t \in 1..MaxClicks : WF_vars(t <= Len(threads) /\ Worker(t))
  /\ WF_vars(RunCallback)

---------------------------------------------------------------------------
(* Properties of categorize_transactions *)

\* categorize_transactions has run and its last call returned normally.
Categorized == runs >= 1 /\ error = "none"

RowIndices == 1..Len(df.rows)

\* The text the income rule and the savings-transfer rule search.
SearchedText(row) == IF "Notes" \in df.cols THEN row.Notes ELSE row.Description

HasPayrollMarker(row) == str_contains(SearchedText(row), PayrollMarker)

HasPurchaseOfBTC(row) == str_contains(SearchedText(row), PurchaseOfBTC)

\* The rules are numbered in the order of the cascade: 1 income marker,
\* 2 crypto-buy, 3 savings-transfer, 4 deposit, 5 confirmed-DCA amount,
\* 6 fixed +/-1000 offset, 7 P2P, 8 point-of-sale, 9 withdrawal, 10 interest.
Rules == 1..10

\* The condition of rule n.
Satisfies(row, n) ==
  CASE n = 1 -> HasPayrollMarker(row)
    [] n = 2 -> row.Transaction_Type \in {"Bitcoin Buy", "Bitcoin Recurring Buy"}
    [] n = 3 -> row.Transaction_Type = "Savings Internal Transfer"
    [] n = 4 -> row.Transaction_Type = "Deposits"
    [] n = 5 -> row.Transaction_Type = "Savings Internal Transfer"
                  /\ row.Net_Amount = -31828
    [] n = 6 -> row.Net_Amount \in {-100000, 100000}
                  /\ row.Transaction_Type \notin {"Bitcoin Buy", "Bitcoin Recurring Buy"}
    [] n = 7 -> row.Transaction_Type = "P2P"
    [] n = 8 -> row.Transaction_Type = "Cash Card"
    [] n = 9 -> row.Transaction_Type = "Withdrawal"
    [] n = 10 -> row.Transaction_Type = "Savings Interest Payment"

\* The label rule n writes on a row that satisfies it.
LabelOf(row, n) ==
  CASE n = 1 -> "Income"
    [] n = 2 -> IF Abs(row.Net_Amount) >= 1000 THEN "Investment (Bitcoin)"
                ELSE "Micro-DCA (Bitcoin)"
    [] n = 3 -> IF HasPurchaseOfBTC(row) THEN "Investment (Bitcoin Savings)"
                ELSE "Savings Transfer"
    [] n = 4 -> "Internal Transfer"
    [] n = 5 -> "Investment (DCA Savings)"
    [] n = 6 -> "Rent Offset (Internal)"
    [] n = 7 -> "P2P Transfer"
    [] n = 8 -> _categorize_cash_card_expense(
                  upper(str(IF "Notes" \in df.cols THEN row.Notes ELSE << >>)))
    [] n = 9 -> "Withdrawal"
    [] n = 10 -> "Interest"

MatchedRules(row) == {n \in Rules : Satisfies(row, n)}

LastOf(S) == CHOOSE n \in S : \A m \in S : m <= n

LastRuleLabel(row) ==
  IF MatchedRules(row) = {} THEN "Other"
  ELSE LabelOf(row, LastOf(MatchedRules(row)))

FixedLabels ==
  {"Income", "Investment (Bitcoin)", "Micro-DCA (Bitcoin)",
   "Investment (Bitcoin Savings)", "Savings Transfer", "Internal Transfer",
   "Investment (DCA Savings)", "Rent Offset (Internal)", "P2P Transfer",
   "Withdrawal", "Interest", "Other"} \cup MerchantLabels

\* C2: once categorize_transactions has been called on a frame that has the
\* transaction-type column (notes possibly missing), the call raised no
\* error and every row has a category among the fixed labels.
C2_TotalNoError ==
  (runs >= 1 /\ "Transaction Type" \in df.cols) =>
    /\ error = "none"
    /\ \A i \in RowIndices : df.rows[i].Category \in FixedLabels

\* C3: a further categorize_transactions call on an already categorized
\* frame leaves every row's category (and the whole frame) as it was.
C3_Idempotent ==
  [][(Categorized /\ runs' = runs + 1) => (error' = "none" /\ df' = df)]_vars

\* The second call has returned on a frame in which the confirmed-DCA rule,
\* which reads the Category column, relabelled a row.
C3_Witness ==
  /\ runs = 2
  /\ error = "none"
  /\ \E i \in RowIndices : df.rows[i].Category = "Investment (DCA Savings)"

\* C4: a row of type 'Bitcoin Buy' or 'Bitcoin Recurring Buy' ends as
\* 'Investment (Bitcoin)' when |net amount| >= 10.00 and as
\* 'Micro-DCA (Bitcoin)' when it is below, whatever its sign and notes.
C4_BitcoinBuyThreshold ==
  Categorized =>
    \A i \in RowIndices :
      df.rows[i].Transaction_Type \in {"Bitcoin Buy", "Bitcoin Recurring Buy"} =>
        df.rows[i].Category =
          IF df.rows[i].Net_Amount >= 1000 \/ df.rows[i].Net_Amount <= -1000
          THEN "Investment (Bitcoin)" ELSE "Micro-DCA (Bitcoin)"

\* A Bitcoin purchase of exactly +1000.00 with the payroll marker in its
\* notes ends as 'Investment (Bitcoin)'.
C4_Witness ==
  /\ Categorized
  /\ \E i \in RowIndices :
       /\ df.rows[i].Transaction_Type = "Bitcoin Recurring Buy"
       /\ df.rows[i].Net_Amount = 100000
       /\ HasPayrollMarker(df.rows[i])
       /\ df.rows[i].Category = "Investment (Bitcoin)"

\* C5: a 'Savings Internal Transfer' of -1000.00 whose notes contain
\* 'purchase of BTC' ends as 'Investment (Bitcoin Savings)'.
C5_BtcSavingsOf1000 ==
  Categorized =>
    \A i \in RowIndices :
      ( /\ df.rows[i].Transaction_Type = "Savings Internal Transfer"
        /\ df.rows[i].Net_Amount = -100000
        /\ HasPurchaseOfBTC(df.rows[i]) ) =>
        df.rows[i].Category = "Investment (Bitcoin Savings)"

\* The row is one the crypto-buy rule or the savings-transfer rule labels as
\* a crypto investment.
CryptoInvestment(row) ==
  \/ /\ row.Transaction_Type \in {"Bitcoin Buy", "Bitcoin Recurring Buy"}
     /\ Abs(row.Net_Amount) >= 1000
  \/ /\ row.Transaction_Type = "Savings Internal Transfer"
     /\ HasPurchaseOfBTC(row)

\* C6: a row already categorized as a crypto investment is never relabelled
\* 'Investment (DCA Savings)'; a 'Savings Internal Transfer' of -318.28 whose
\* notes contain 'purchase of BTC' keeps 'Investment (Bitcoin Savings)'.
C6_DcaSparesCrypto ==
  Categorized =>
    \A i \in RowIndices :
      /\ CryptoInvestment(df.rows[i]) =>
           df.rows[i].Category # "Investment (DCA Savings)"
      /\ ( /\ df.rows[i].Transaction_Type = "Savings Internal Transfer"
           /\ df.rows[i].Net_Amount = -31828
           /\ HasPurchaseOfBTC(df.rows[i]) ) =>
           df.rows[i].Category = "Investment (Bitcoin Savings)"

C9_PayrollDepositsIncome ==
  Categorized =>
    \A i \in RowIndices :
      ( /\ df.rows[i].Transaction_Type = "Deposits"
        /\ "Notes" \in df.cols
        /\ str_contains(df.rows[i].Notes, PayrollMarker) ) =>
        df.rows[i].Category = "Income"

\* C10: every 'Savings Internal Transfer' row ends as 'Investment (Bitcoin
\* Savings)' when its notes contain 'purchase of BTC' and as
\* 'Investment (DCA Savings)' when they do not.
C10_SavingsTransfersInvest ==
  Categorized =>
    \A i \in RowIndices :
      df.rows[i].Transaction_Type = "Savings Internal Transfer" =>
        df.rows[i].Category =
          IF HasPurchaseOfBTC(df.rows[i]) THEN "Investment (Bitcoin Savings)"
          ELSE "Investment (DCA Savings)"

\* The transaction types some rule of the cascade names.
RuleTypes ==
  {"Bitcoin Buy", "Bitcoin Recurring Buy", "Savings Internal Transfer",
   "Deposits", "P2P", "Cash Card", "Withdrawal", "Savings Interest Payment"}

C12_TypeDecides ==
  Categorized =>
    \A i \in RowIndices :
      /\ df.rows[i].Transaction_Type = "P2P" =>
           df.rows[i].Category = "P2P Transfer"
      /\ df.rows[i].Transaction_Type = "Withdrawal" =>
           df.rows[i].Category = "Withdrawal"
      /\ df.rows[i].Transaction_Type = "Savings Interest Payment" =>
           df.rows[i].Category = "Interest"
      /\ df.rows[i].Transaction_Type = "Cash Card" =>
           df.rows[i].Category =
             _categorize_cash_card_expense(
               upper(str(IF "Notes" \in df.cols THEN df.rows[i].Notes ELSE << >>)))

\* A withdrawal of exactly -1000.00 whose notes carry the payroll marker
\* ends as 'Withdrawal'.
C12_Witness ==
  /\ Categorized
  /\ \E i \in RowIndices :
       /\ df.rows[i].Transaction_Type = "Withdrawal"
       /\ df.rows[i].Net_Amount = -100000
       /\ HasPayrollMarker(df.rows[i])
       /\ df.rows[i].Category = "Withdrawal"

---------------------------------------------------------------------------
(* Properties of _categorize_cash_card_expense *)

\* The categories in their fixed order, each with its keyword list.
CategoryOrder ==
  << <<"Food & Dining", food_keywords>>,
     <<"Entertainment & Media", entertainment_keywords>>,
     <<"Gas & Travel", travel_keywords>>,
     <<"Healthcare & Fitness", health_keywords>>,
     <<"Golf & Recreation", golf_keywords>>,
     <<"Subscriptions & Services", subscription_keywords>>,
     <<"Shopping", shopping_keywords>>,
     <<"Transportation", transport_keywords>>,
     <<"Insurance & Financial", financial_keywords>>,
     <<"Housing & Rent", housing_keywords>>,
     <<"Travel & Tourism", tourism_keywords>> >>

\* The categories that have a keyword contained in the upper-cased text.
ContainingCategories(text) ==
  {c \in 1..Len(CategoryOrder) : AnyIn(CategoryOrder[c][2], upper(text))}

FirstOf(S) == CHOOSE n \in S : \A m \in S : n <= m

\* C13: _categorize_cash_card_expense returns the label of the first
\* category, in the fixed order, that has a keyword contained in the
\* upper-cased merchant text, and 'Other Expenses' when none has; the result
\* is one of the 12 merchant labels.
C13_FirstMatchInOrder ==
  returned.call = "_categorize_cash_card_expense" =>
    /\ returned.value \in MerchantLabels
    /\ returned.value =
         IF ContainingCategories(returned.args) = {} THEN "Other Expenses"
         ELSE CategoryOrder[FirstOf(ContainingCategories(returned.args))][1]

\* The classifier was called with 'GOLF CHIPOTLE', which holds a golf keyword
\* before a food keyword, and returned 'Food & Dining'.
C13_Witness ==
  /\ returned.call = "_categorize_cash_card_expense"
  /\ returned.args = golf_keywords[1] \o <<" ">> \o food_keywords[1]
  /\ Cardinality(ContainingCategories(returned.args)) = 2
  /\ returned.value = "Food & Dining"

----------------------------------------------------------------------------
(* Properties of generate_report and generate_monthly_summary *)

\* The rows dated from start to end.
DatedWithin(start, end) == {i \in RowIndices : df.rows[i].Date \in start..end}

\* The step is a generate_report call that returned a report.
ReportReturns ==
  /\ returned'.call = "generate_report"
  /\ returned'.raised = "none"
  /\ GenerateReport

\* The filtered records of the generate_report call of the step: those of
\* the range given, else of the range stored, else all records.
ReportedRows ==
  IF returned'.args # NoRange THEN DatedWithin(returned'.args[1], returned'.args[2])
  ELSE IF start_date # NoDate /\ end_date # NoDate THEN DatedWithin(start_date, end_date)
  ELSE RowIndices

\* The report of the step has the role sections (the filtered set is not empty).
HasRoles == "total_income" \in DOMAIN returned'.value

InternalLabels ==
  {"Internal Transfer", "Rent Offset (Internal)", "Savings Transfer", "Deposits"}

InvestmentLabels ==
  {"Investment (Bitcoin)", "Investment (DCA Savings)",
   "Investment (Bitcoin Savings)", "Investment (Potential DCA)"}

RECURSIVE SumOf(_)
\* The sum of the net amounts of the rows I of the frame.
SumOf(I) ==
  IF I = {} THEN 0
  ELSE LET i == CHOOSE i \in I : TRUE IN df.rows[i].Net_Amount + SumOf(I \ {i})

\* C14: the total income of a report is the sum of the net amounts of the
\* filtered records with a positive amount and a category that is neither
\* an internal-transfer label nor an investment label.
C14_IncomeExcludesInvestments ==
  [][(ReportReturns /\ HasRoles) =>
       returned'.value.total_income =
         SumOf({i \in ReportedRows :
                  /\ df.rows[i].Net_Amount > 0
                  /\ df.rows[i].Category \notin InternalLabels
                  /\ df.rows[i].Category \notin InvestmentLabels})]_vars


\* The step is a generate_report call that printed the role sections.
ReportsRoles ==
  /\ returned'.call = "generate_report"
  /\ returned'.raised = "none"
  /\ HasRoles
  /\ GenerateReport

\* C15: a filtered record is counted in the total investments of a report if
\* and only if its net amount is negative and its category is an investment
\* label; a 'Micro-DCA (Bitcoin)' record is never counted there and, when
\* negative, is counted in the total expenses.
C15_InvestmentsNegativeInvestmentLabel ==
  [][ReportsRoles =>
       /\ returned'.value.investment_data =
            {i \in ReportedRows : /\ df.rows[i].Net_Amount < 0
                                  /\ df.rows[i].Category \in InvestmentLabels}
       /\ returned'.value.total_investments =
            -SumOf(returned'.value.investment_data)
       /\ \A i \in ReportedRows :
            df.rows[i].Category = "Micro-DCA (Bitcoin)" =>
              /\ i \notin returned'.value.investment_data
              /\ (df.rows[i].Net_Amount < 0 => i \in returned'.value.expense_data)
       /\ returned'.value.total_expenses = SumOf(returned'.value.expense_data)]_vars

\* A report was returned that counts a record in the investments and a
\* negative 'Micro-DCA (Bitcoin)' record in the expenses.
C15_Witness ==
  /\ returned.call = "generate_report"
  /\ returned.raised = "none"
  /\ "investment_data" \in DOMAIN returned.value
  /\ returned.value.investment_data # {}
  /\ \E i \in returned.value.expense_data :
       df.rows[i].Category = "Micro-DCA (Bitcoin)"


\* C16: no filtered record contributes to more than one of the income,
\* expenses and investments totals of a report, and a record with an
\* internal-transfer label contributes to none of them.
C16_RolesDisjoint ==
  [][ReportsRoles =>
       LET income == returned'.value.income_data
           expenses == returned'.value.expense_data
           investments == returned'.value.investment_data
       IN  /\ income \cap expenses = {}
           /\ income \cap investments = {}
           /\ expenses \cap investments = {}
           /\ returned'.value.total_income = SumOf(income)
           /\ returned'.value.total_expenses = SumOf(expenses)
           /\ returned'.value.total_investments = Abs(SumOf(investments))
           /\ \A i \in ReportedRows :
                df.rows[i].Category \in InternalLabels =>
                  i \notin income \cup expenses \cup investments]_vars

\* A report was returned on records of which one is an internal transfer,
\* left out of the three roles, and one is an income.
C16_Witness ==
  /\ returned.call = "generate_report"
  /\ returned.raised = "none"
  /\ "income_data" \in DOMAIN returned.value
  /\ returned.value.income_data # {}
  /\ returned.value.total_transactions >
       Cardinality(returned.value.income_data \cup returned.value.expense_data
                     \cup returned.value.investment_data)
  /\ \E i \in RowIndices : df.rows[i].Category \in InternalLabels


\* C17: a report on a non-empty filtered record set holds two net cash flow
\* figures: the one excluding investments is total income + total expenses
\* (expenses negative), the one including investments is total income +
\* total expenses - total investments, on the totals of the same report.
C17_NetCashFlows ==
  [][(ReportReturns /\ ReportedRows # {}) =>
       /\ {"total_income", "total_expenses", "total_investments",
           "net_amount_excluding_investments",
           "net_amount_including_investments"} \subseteq DOMAIN returned'.value
       /\ returned'.value.total_expenses <= 0
       /\ returned'.value.total_investments >= 0
       /\ returned'.value.net_amount_excluding_investments =
            returned'.value.total_income + returned'.value.total_expenses
       /\ returned'.value.net_amount_including_investments =
            returned'.value.total_income + returned'.value.total_expenses
              - returned'.value.total_investments]_vars

\* A report was returned whose income and investments are both positive, so
\* that the two net cash flows differ.
C17_Witness ==
  /\ returned.call = "generate_report"
  /\ returned.raised = "none"
  /\ "total_investments" \in DOMAIN returned.value
  /\ returned.value.total_income > 0
  /\ returned.value.total_investments > 0
  /\ returned.value.net_amount_including_investments #
       returned.value.net_amount_excluding_investments


RateLines == {"cash_savings_rate", "investment_rate", "total_savings_rate"}

\* The text of a rate that does not apply.
NotApplicable == <<"N", "/", "A">>

SummaryReturns ==
  /\ returned'.call = "generate_monthly_summary"
  /\ returned'.raised = "none"
  /\ GenerateMonthlySummary

\* The date range of the generate_monthly_summary call of the step: the
\* range given, else the range stored, else the last months_back * 30 days,
\* else the last 180 days.
SummaryRange ==
  IF returned'.args[2] # NoDate /\ returned'.args[3] # NoDate
  THEN <<returned'.args[2], returned'.args[3]>>
  ELSE IF start_date # NoDate /\ end_date # NoDate THEN <<start_date, end_date>>
  ELSE IF returned'.args[1] # NoMonths THEN <<Now - returned'.args[1] * 30, Now>>
  ELSE <<Now - 180, Now>>

\* The filtered records of the generate_monthly_summary call of the step.
SummarizedRows == DatedWithin(SummaryRange[1], SummaryRange[2])

CalendarMonths ==
  {[name |-> "2024-01", first |-> 1, last |-> 31],
   [name |-> "2024-02", first |-> 32, last |-> 60],
   [name |-> "2024-03", first |-> 61, last |-> 91]}

\* The records among I dated in the calendar month.
RecordsOfMonth(I, month) ==
  {i \in I : df.rows[i].Date \in month.first..month.last}

RECURSIVE SumOfTotals(_, _)
\* The sum of the Total_Amount of the rows named months of a monthly summary.
SumOfTotals(summary, months) ==
  IF months = {} THEN 0
  ELSE LET month == CHOOSE month \in months : TRUE
       IN  summary[month].Total_Amount + SumOfTotals(summary, months \ {month})

\* C20: generate_monthly_summary(start, end) returns one row per calendar
\* month holding a record with start <= date <= end, with the sum and the
\* count of exactly those records; records dated outside the range or
\* without a date are in no row, and the sums of the rows add up to the net
\* total of the filtered records.
C20_MonthlyRows ==
  [][(SummaryReturns /\ returned'.args[2] # NoDate /\ returned'.args[3] # NoDate) =>
       LET start == returned'.args[2]
           end == returned'.args[3]
           filtered == {i \in RowIndices : /\ df.rows[i].Date # NaT
                                           /\ start <= df.rows[i].Date
                                           /\ df.rows[i].Date <= end}
           months == {month \in CalendarMonths : RecordsOfMonth(filtered, month) # {}}
           summary == returned'.value
       IN  /\ DOMAIN summary = {month.name : month \in months}
           /\ \A month \in months :
                /\ summary[month.name].Total_Amount =
                     SumOf(RecordsOfMonth(filtered, month))
                /\ summary[month.name].Transaction_Count =
                     Cardinality(RecordsOfMonth(filtered, month))
           /\ SumOfTotals(summary, DOMAIN summary) = SumOf(filtered)]_vars

\* generate_monthly_summary(2024-01-15, 2024-02-10) has returned a row for
\* January and a row for February on records dated on the two bounds.
C20_Witness ==
  /\ returned.call = "generate_monthly_summary"
  /\ returned.args[2] = 15
  /\ returned.args[3] = 41
  /\ DOMAIN returned.value = {"2024-01", "2024-02"}
  /\ \E i \in RowIndices : df.rows[i].Date = 15
  /\ \E i \in RowIndices : df.rows[i].Date = 41


\* The records of the frame whose date could not be parsed.
Undated == {i \in RowIndices : df.rows[i].Date = NaT}

\* C21: generate_report on a frame with a record without a date, with or
\* without a date range, raises nothing, counts the record in the role
\* totals (unless its label is an internal-transfer label) and leaves it
\* out of the per-month rows.
C21_UndatedKeptInTotals ==
  [][(GenerateReport /\ Undated # {}) =>
       /\ returned'.raised = "none"
       /\ "income_data" \in DOMAIN returned'.value
       /\ \A i \in Undated :
            df.rows[i].Category \notin InternalLabels =>
              i \in returned'.value.income_data \cup returned'.value.expense_data
                      \cup returned'.value.investment_data
       /\ \A month \in DOMAIN returned'.value.monthly_summary :
            returned'.value.monthly_summary[month].Transaction_Count <=
              Cardinality(RowIndices \ Undated)]_vars


RECURSIVE LargestFirst(_, _)
\* Up to n of the records I, the largest |net amount| first and, among equal
\* |net amount|, the earlier record first.
LargestFirst(I, n) ==
  IF n = 0 \/ I = {} THEN << >>
  ELSE LET i == CHOOSE i \in I :
                  \A j \in I :
                     \/ Abs(df.rows[i].Net_Amount) > Abs(df.rows[j].Net_Amount)
                     \/ /\ Abs(df.rows[i].Net_Amount) = Abs(df.rows[j].Net_Amount)
                        /\ i <= j
       IN  <<i>> \o LargestFirst(I \ {i}, n - 1)

\* C22: the top 5 of a report holds the (up to) five filtered records with
\* the largest |net amount|, largest first, records with equal |net amount|
\* in their original order.
C22_Top5StableByAmount ==
  [][ReportsRoles => returned'.value.top_5 = LargestFirst(ReportedRows, 5)]_vars

----------------------------------------------------------------------------
(* Properties of the main window *)

\* The worker threads whose completion callback has not run yet.
Unfinished == {t \in 1..Len(threads) : threads[t].callbacks = 0}

\* C23: while a worker thread has not delivered its completion callback the
\* Generate button is disabled, and at most one such worker exists.
C23_OneWorkerAtATime ==
  Unfinished # {} => (generate_button = "disabled" /\ Cardinality(Unfinished) = 1)

\* The step is filter_data, clear_filters or export_data on the UI thread.
ViewerReads == FilterData \/ ClearFilters \/ ExportData

\* C24: filter_data, clear_filters and export_data never fill the data
\* viewer from a record set that is loaded but not yet completely categorized.
C24_ViewerReadsComplete ==
  [][(ViewerReads /\ data_tree' # data_tree) => data_tree' = "categorized"]_vars

\* C25: a PDF is built from the file selected in the window: the file
\* selected when the PDF was requested or the one selected when it is built.
C25_PdfFromSelectedFile ==
  [][\A t \in 1..Len(threads) :
       threads'[t].pdf_from # threads[t].pdf_from =>
         threads'[t].pdf_from \in {threads[t].clicked, csv_file_path}]_vars

\* C26: every worker thread started by a click on Generate is eventually
\* followed by its completion callback on the UI thread.
C26_CallbackDelivered ==
  \A t \in 1..MaxClicks :
    (t <= Len(threads)) ~> (t <= Len(threads) /\ threads[t].callbacks = 1)

----------------------------------------------------------------------------
(* Properties of the date range *)

\* A range is stored on the analyzer.
RangeStored == start_date # NoDate /\ end_date # NoDate

\* The call of the step gives both start_date and end_date.
SummaryRangeGiven == returned'.args[2] # NoDate /\ returned'.args[3] # NoDate

\* The monthly totals of the rows dated from start to end.
TotalsWithin(start, end) == MonthlyTotals(df, DatedWithin(start, end) \ Undated)

\* C28: generate_monthly_summary summarizes the range given (and stores it),
\* else the range stored, else the last months_back * 30 days, else the last
\* 180 days, and leaves the stored range alone unless a range is given;
\* generate_report never changes the stored range and, called without
\* arguments while a range is stored, reports exactly the rows of that range.
C28_DateRangePriority ==
  [][/\ (returned'.call = "generate_monthly_summary" /\ GenerateMonthlySummary) =>
          IF SummaryRangeGiven
          THEN /\ start_date' = returned'.args[2]
               /\ end_date' = returned'.args[3]
               /\ returned'.value = TotalsWithin(returned'.args[2], returned'.args[3])
          ELSE /\ UNCHANGED <<start_date, end_date>>
               /\ returned'.value =
                    IF RangeStored THEN TotalsWithin(start_date, end_date)
                    ELSE IF returned'.args[1] # NoMonths
                         THEN TotalsWithin(Now - returned'.args[1] * 30, Now)
                    ELSE TotalsWithin(Now - 180, Now)
     /\ (returned'.call = "generate_report" /\ GenerateReport) =>
          /\ UNCHANGED <<start_date, end_date>>
          /\ (returned'.args = NoRange /\ RangeStored) =>
               /\ returned'.raised = "none"
               /\ returned'.value.total_transactions =
                    Cardinality(DatedWithin(start_date, end_date))
               /\ "income_data" \in DOMAIN returned'.value =>
                    (returned'.value.income_data \cup returned'.value.expense_data
                       \cup returned'.value.investment_data)
                      \subseteq DatedWithin(start_date, end_date)]_vars

\* generate_monthly_summary(months_back=1) has returned while the range
\* 2024-01-01..2024-01-31 was stored: it summarized a record of January 15,
\* which is older than 30 days.
C28_Witness ==
  /\ returned.call = "generate_monthly_summary"
  /\ returned.args = <<1, NoDate, NoDate>>
  /\ start_date = 1
  /\ end_date = 31
  /\ \E i \in RowIndices : df.rows[i].Date = 15
  /\ DOMAIN returned.value = {"2024-01"}

----------------------------------------------------------------------------
(* Properties of the cash flow dashboard *)

\* The text report of the same records: generate_report with the arguments
\* of the create_cash_flow_visualizations call of the step.
ReportOfSameRecords ==
  generate_report(df, start_date, end_date, returned'.args[1], returned'.args[2])

\* C27: the dashboard assigns every record to the role the text report of
\* the same categorized records assigns it to.
C27_SameRolesAsReport ==
  [][(/\ CreateCashFlowVisualizations
      /\ ReportOfSameRecords.raised = "none"
      /\ "income_data" \in DOMAIN ReportOfSameRecords.value) =>
       /\ returned'.value.income_data = ReportOfSameRecords.value.income_data
       /\ returned'.value.expense_data = ReportOfSameRecords.value.expense_data
       /\ returned'.value.investment_data = ReportOfSameRecords.value.investment_data]_vars

----------------------------------------------------------------------------
(* Properties of a statement without transaction types *)

\* C29: on a record set without a transaction-type column
\* categorize_transactions raises nothing and leaves every record as
\* 'Income', 'Rent Offset (Internal)' or 'Other'.
C29_NoTypeColumnCompletes ==
  (runs >= 1 /\ "Transaction Type" \notin df.cols) =>
    /\ error = "none"
    /\ \A i \in RowIndices :
         df.rows[i].Category \in {"Income", "Rent Offset (Internal)", "Other"}

----------------------------------------------------------------------------
(* Properties of the merchant table *)

\* The categories whose list holds the text as a keyword.
CategoriesListing(text) ==
  {c \in 1..Len(CategoryOrder) :
     \E n \in 1..Len(CategoryOrder[c][2]) : CategoryOrder[c][2][n] = text}

\* C30: a merchant text equal to a keyword is classified into the category
\* whose list contains that keyword.
C30_EveryKeywordEffective ==
  (/\ returned.call = "_categorize_cash_card_expense"
   /\ returned.args \in AllKeywords) =>
    \A c \in CategoriesListing(returned.args) : returned.value = CategoryOrder[c][1]

====
